---- MODULE Spec2Model ----
(***************************************************************************)
(* Etapa 1 of analisis_inundaciones_colombia.py: the geometry              *)
(* simplification engine (Douglas-Peucker, ring validity floor, coordinate *)
(* rounding) and the loop of simplificar_geojson over a feature            *)
(* collection.                                                             *)
(*                                                                         *)
(* Numbers.  A coordinate is an integer count of a length unit.  The       *)
(* value returned by _punto_distancia_a_linea is a float, math.sqrt of a   *)
(* sum that lines 81-84 have rounded several times.  It is kept as        *)
(* [n, d, r]: n/d, with d > 0, is the exact square of the distance, and r  *)
(* is the rank of the float among the floats returned for that same exact  *)
(* distance: r = 0 is the float nearest to the exact distance, r = 1, 2,   *)
(* ... are the floats above it in increasing order, r = -1, -2, ... those  *)
(* below it in decreasing order.  Every use the code makes of a distance   *)
(* is a comparison of two floats (d > distancia_max, distancia_max >       *)
(* epsilon): two distances whose exact values differ compare as the exact  *)
(* values do, the rounding being far smaller than their difference, and    *)
(* two whose exact values are equal compare as their r do.  The r of a     *)
(* call is not computed here: the variable redondeo gives it, and it       *)
(* ranges over every outcome.  A tolerance is a positive rational [n, d]   *)
(* in the same unit; the float of a tolerance is the float nearest to it.  *)
(*                                                                         *)
(* In the collection pipeline the unit is 1/3000 degree, so that           *)
(* round(x, 3) is a real conversion (to the nearest multiple of 3 units)   *)
(* and never meets a decimal tie; epsilon = 0.008 degree is 24 units.      *)
(*                                                                         *)
(* Python indices are 0-based, sequences here are 1-based: the Python      *)
(* element puntos[i] is puntos[i + 1] below.                               *)
(***************************************************************************)
EXTENDS Integers, Sequences, FiniteSets, TLC

VARIABLES
    \* one call of _simplificar_anillo(anillo, epsilon)
    anillo,          \* argument: the ring (any point sequence)
    epsilon,         \* argument: the tolerance
    paso,            \* position in the call: "inicio", "simplificado", "retorno", "inactivo"
    simplificado,    \* local of line 134: _douglas_peucker(anillo, epsilon)
    retorno,         \* value returned by lines 135-137
    \* one run of simplificar_geojson(ruta_geojson)
    entrada,         \* content of the file at ruta_geojson (never written)
    geo,             \* the loaded collection, mutated in place by the loop
    pc,              \* position in the run
    idx,             \* 1-based position of feat in geo['features']
    coords_antes,    \* line 196
    coords_despues,  \* line 213
    salida,          \* the returned collection (serialised by line 219)
    error,           \* name of the exception that ended the run, "" if none
    \* one call of _punto_distancia_a_linea(punto, inicio, fin)
    punto,           \* argument
    inicio,          \* argument
    fin,             \* argument
    posicion,        \* position in the call: "llamada", "retornado", "inactivo"
    distancia,       \* the value returned: exact square and rounding
    divisiones,      \* how many times the call evaluated the quotient of line 81
    \* the loop of lines 201-211 with the features' steps taken in any order
    avance,          \* per feature: the step it is due, or "hecho"
    \* the dashboard script, lines 726-1011
    curY,            \* line 735
    curM,            \* line 735
    sliderY,         \* value of the range input sliderY (line 693), a string
    sliderM,         \* value of the range input sliderM (line 701), a string
    playY,           \* closure of makePlayer('playY', ...): playing, idx (intv is armed iff playing)
    playM,           \* closure of makePlayer('playM', ...)
    \* the floating-point arithmetic of lines 77 and 81-84
    redondeo         \* per argument triple << punto, inicio, fin >>: the rank r; 0 where not listed

vars == << anillo, epsilon, paso, simplificado, retorno,
           entrada, geo, pc, idx, coords_antes, coords_despues, salida, error,
           punto, inicio, fin, posicion, distancia, divisiones,
           avance, curY, curM, sliderY, sliderM, playY, playM, redondeo >>

varsAnillo == << anillo, epsilon, paso, simplificado, retorno >>
varsGeojson == << entrada, geo, pc, idx, coords_antes, coords_despues, salida, error >>
varsDistancia == << punto, inicio, fin, posicion, distancia, divisiones >>
varsIntercalado == << avance >>
varsTablero == << curY, curM, sliderY, sliderM, playY, playM >>
varsFlotante == << redondeo >>

-----------------------------------------------------------------------------
(* Bounds of the model *)

\* longest point sequence handed to _simplificar_anillo
MaxPuntos == 5

\* most features in an input collection
MaxFeatures == 2

\* largest coordinate of a point handed to _punto_distancia_a_linea
MaxCoordenada == 3

-----------------------------------------------------------------------------
(* Distances and tolerances *)

\* a tolerance: the positive rational n/d
Racional(n, d) == [n |-> n, d |-> d]

\* a value returned by _punto_distancia_a_linea: exact square n/d, rounding r
Calculada(n, d, r) == [n |-> n, d |-> d, r |-> r]

\* the ranks that k different floats of one exact distance can have
Niveles(k) == (0 - k)..k

\* the rounding of the call on punto = p, inicio = a, fin = b
Sesgo(p, a, b) ==
    IF << p, a, b >> \in DOMAIN redondeo THEN redondeo[<< p, a, b >>] ELSE 0

\* a > b for two values returned (line 113 with b = distancia_max)
MayorQue(a, b) ==
    IF a.d = b.d
    THEN a.n > b.n \/ (a.n = b.n /\ a.r > b.r)
    ELSE \/ a.n * b.d > b.n * a.d
         \/ (a.n * b.d = b.n * a.d /\ a.r > b.r)

\* the exact distance of dist is the tolerance tol
IgualATolerancia(dist, tol) ==
    dist.n * (tol.d * tol.d) = (tol.n * tol.n) * dist.d

\* Mutant of SuperaTolerancia: the comparison of line 117 inverted
\* (distancia_max < epsilon), kept to the calls that still terminate.
SuperaToleranciaInvertida(dist, tol) ==
    /\ dist.n > 0
    /\ \/ dist.n * (tol.d * tol.d) < (tol.n * tol.n) * dist.d
       \/ (IgualATolerancia(dist, tol) /\ dist.r < 0)

\* Mutant of SuperaTolerancia: a distance equal to the tolerance also splits
\* (distancia_max >= epsilon), kept to the calls that still terminate.
SuperaToleranciaOIgual(dist, tol) ==
    /\ dist.n > 0
    /\ \/ dist.n * (tol.d * tol.d) > (tol.n * tol.n) * dist.d
       \/ (IgualATolerancia(dist, tol) /\ dist.r >= 0)

\* dist > tol, for a value returned dist and a tolerance tol > 0 (line 117)
SuperaTolerancia(dist, tol) ==
    \/ dist.n * (tol.d * tol.d) > (tol.n * tol.n) * dist.d
    \/ (IgualATolerancia(dist, tol) /\ dist.r > 0)

-----------------------------------------------------------------------------
(* _punto_distancia_a_linea, lines 69-84 *)

\* Mutant of SegmentoDegenerado: the test of line 76 never taken
SegmentoNuncaDegenerado(a, b) ==
    FALSE

\* line 76: inicio[0] == fin[0] and inicio[1] == fin[1]
SegmentoDegenerado(a, b) ==
    a[1] = b[1] /\ a[2] = b[2]

\* Mutant of punto_distancia_a_linea: t left unclamped, the distance to the
\* infinite line through the segment
distancia_a_la_recta(p, a, b) ==
    IF SegmentoDegenerado(a, b)
    THEN Calculada((p[1] - a[1]) * (p[1] - a[1]) + (p[2] - a[2]) * (p[2] - a[2]), 1,
                   Sesgo(p, a, b))
    ELSE LET dx  == b[1] - a[1]
             dy  == b[2] - a[2]
             ex  == p[1] - a[1]
             ey  == p[2] - a[2]
             num == ex * dx + ey * dy
             den == dx * dx + dy * dy
         IN  Calculada((ex * ex + ey * ey) * den - num * num, den, Sesgo(p, a, b))

\* how many times one call evaluates the quotient num / den of line 81: the
\* return of line 77 comes before it
DivisionesDeLaLlamada(p, a, b) ==
    IF SegmentoDegenerado(a, b) THEN 0 ELSE 1

\* lines 76-84 on punto = p, inicio = a, fin = b, when the rounding of the
\* call is r
distancia_redondeada(p, a, b, r) ==
    IF SegmentoDegenerado(a, b)
    THEN Calculada((p[1] - a[1]) * (p[1] - a[1])
                   + (p[2] - a[2]) * (p[2] - a[2]), 1, r)
    ELSE
      LET dx  == b[1] - a[1]
          dy  == b[2] - a[2]
          num == (p[1] - a[1]) * dx + (p[2] - a[2]) * dy
          den == dx * dx + dy * dy
          ex  == p[1] - a[1]
          ey  == p[2] - a[2]
      IN  \* t = max(0, min(1, num / den))
          IF num <= 0
          THEN \* t = 0: proj = inicio
               Calculada(ex * ex + ey * ey, 1, r)
          ELSE IF num >= den
          THEN \* t = 1: proj = fin
               Calculada((p[1] - b[1]) * (p[1] - b[1])
                         + (p[2] - b[2]) * (p[2] - b[2]), 1, r)
          ELSE \* 0 < t < 1: (ex - t*dx)^2 + (ey - t*dy)^2 with t = num/den
               \*          = (ex^2 + ey^2) - num^2 / den
               Calculada((ex * ex + ey * ey) * den - num * num, den, r)

\* the value returned; p, a, b are the parameters punto, inicio, fin
punto_distancia_a_linea(p, a, b) ==
    distancia_redondeada(p, a, b, Sesgo(p, a, b))

\* line 81 with 0 < num < den: t is a quotient that is neither 0 nor 1, and
\* lines 82-84 round its products.  Otherwise, on whole coordinates, t is 0
\* or 1, proj is inicio or fin, and line 77 or 84 is math.sqrt of a whole
\* number: the float nearest to the exact distance.  With 0 < t < 1 a point
\* of the segment can be returned a float above 0.0.
ProyeccionInterior(p, a, b) ==
    /\ ~SegmentoDegenerado(a, b)
    /\ LET dx  == b[1] - a[1]
           dy  == b[2] - a[2]
           num == (p[1] - a[1]) * dx + (p[2] - a[2]) * dy
           den == dx * dx + dy * dy
       IN  num > 0 /\ num < den

-----------------------------------------------------------------------------
(* _douglas_peucker, lines 87-124 *)

\* distancia_max = 0 of line 108
DistanciaInicial == Calculada(0, 1, 0)

\* Mutant of BuscarMaximo: the scan stops one point early, range(1, len - 2)
RECURSIVE BuscarMaximoCorto(_, _, _, _)
BuscarMaximoCorto(puntos, i, indice_max, distancia_max) ==
    IF i > Len(puntos) - 3
    THEN [indice_max |-> indice_max, distancia_max |-> distancia_max]
    ELSE LET d == punto_distancia_a_linea(puntos[i + 1], puntos[1], puntos[Len(puntos)])
         IN  IF MayorQue(d, distancia_max)
             THEN BuscarMaximoCorto(puntos, i + 1, i, d)
             ELSE BuscarMaximoCorto(puntos, i + 1, indice_max, distancia_max)

\* The scan of lines 108-115, from Python index i on: the pair
\* (indice_max, distancia_max) when the loop ends.
RECURSIVE BuscarMaximo(_, _, _, _)
BuscarMaximo(puntos, i, indice_max, distancia_max) ==
    IF i > Len(puntos) - 2
    THEN [indice_max |-> indice_max, distancia_max |-> distancia_max]
    ELSE LET d == punto_distancia_a_linea(puntos[i + 1], puntos[1], puntos[Len(puntos)])
         IN  IF MayorQue(d, distancia_max)
             THEN BuscarMaximo(puntos, i + 1, i, d)
             ELSE BuscarMaximo(puntos, i + 1, indice_max, distancia_max)

\* Mutant of Concatenar: izquierda + derecha, the split point kept twice
ConcatenarSinQuitar(izquierda, derecha) ==
    izquierda \o derecha

\* Mutant of Concatenar: izquierda + derecha[:-1], the wrong end cut
ConcatenarCortaDerecha(izquierda, derecha) ==
    izquierda \o SubSeq(derecha, 1, Len(derecha) - 1)

\* izquierda[:-1] + derecha, line 121
Concatenar(izquierda, derecha) ==
    SubSeq(izquierda, 1, Len(izquierda) - 1) \o derecha

\* Mutant of Izquierda: puntos[:indice_max], the split point left out
IzquierdaSinDivision(puntos, indice_max) ==
    SubSeq(puntos, 1, indice_max)

\* puntos[:indice_max + 1], the argument of the call of line 119
Izquierda(puntos, indice_max) ==
    SubSeq(puntos, 1, indice_max + 1)

\* puntos[indice_max:], the argument of the call of line 120
Derecha(puntos, indice_max) ==
    SubSeq(puntos, indice_max + 1, Len(puntos))

RECURSIVE douglas_peucker(_, _)
douglas_peucker(puntos, eps) ==
    IF Len(puntos) <= 2
    THEN puntos
    ELSE LET m == BuscarMaximo(puntos, 1, 0, DistanciaInicial)
         IN  IF SuperaTolerancia(m.distancia_max, eps)
             THEN LET izquierda == douglas_peucker(Izquierda(puntos, m.indice_max), eps)
                      derecha   == douglas_peucker(Derecha(puntos, m.indice_max), eps)
                  IN  Concatenar(izquierda, derecha)
             ELSE << puntos[1], puntos[Len(puntos)] >>

\* How deep the calls of lines 119-120 nest below one call of
\* _douglas_peucker: 0 when the call returns without calling itself.
RECURSIVE profundidad(_, _)
profundidad(puntos, eps) ==
    IF Len(puntos) <= 2
    THEN 0
    ELSE LET m == BuscarMaximo(puntos, 1, 0, DistanciaInicial)
         IN  IF SuperaTolerancia(m.distancia_max, eps)
             THEN LET pi == profundidad(Izquierda(puntos, m.indice_max), eps)
                      pd == profundidad(Derecha(puntos, m.indice_max), eps)
                  IN  1 + (IF pi > pd THEN pi ELSE pd)
             ELSE 0

\* Every call of lines 119-120 made below one call of _douglas_peucker is
\* handed at least 2 points and fewer points than its caller has.
RECURSIVE llamadas_decrecientes(_, _)
llamadas_decrecientes(puntos, eps) ==
    IF Len(puntos) <= 2
    THEN TRUE
    ELSE LET m == BuscarMaximo(puntos, 1, 0, DistanciaInicial)
         IN  IF SuperaTolerancia(m.distancia_max, eps)
             THEN LET iz == Izquierda(puntos, m.indice_max)
                      de == Derecha(puntos, m.indice_max)
                  IN  /\ Len(iz) >= 2 /\ Len(iz) < Len(puntos)
                      /\ Len(de) >= 2 /\ Len(de) < Len(puntos)
                      /\ llamadas_decrecientes(iz, eps)
                      /\ llamadas_decrecientes(de, eps)
             ELSE TRUE

\* The positions of the input that _douglas_peucker keeps: the same call
\* tree, lines 105-124, run on the part of puntos from position i to position
\* j (1-based) and returning positions where the code returns points.
RECURSIVE indices_retenidos(_, _, _, _)
indices_retenidos(puntos, eps, i, j) ==
    IF j - i + 1 <= 2
    THEN [k \in 1..(j - i + 1) |-> i + k - 1]
    ELSE LET m == BuscarMaximo(SubSeq(puntos, i, j), 1, 0, DistanciaInicial)
         IN  IF SuperaTolerancia(m.distancia_max, eps)
             THEN Concatenar(indices_retenidos(puntos, eps, i, i + m.indice_max),
                             indices_retenidos(puntos, eps, i + m.indice_max, j))
             ELSE << i, j >>

-----------------------------------------------------------------------------
(* The rounding that one call of _douglas_peucker can depend on *)

\* the value returned with its rounding left out
Exacta(p, a, b) ==
    distancia_redondeada(p, a, b, 0)

\* The argument triples on which the outcome of lines 113 and 117 hangs, in
\* this call and in the calls it can make of itself: the points at the
\* largest exact distance to the chord, when that distance is the tolerance
\* itself, when it is that of two different points, or when it is 0, the
\* distancia_max of line 108.  enteras: the coordinates are whole numbers, so
\* that only a triple of ProyeccionInterior is rounded.
RECURSIVE TernasEnDuda(_, _, _)
TernasEnDuda(puntos, eps, enteras) ==
    IF Len(puntos) <= 2
    THEN {}
    ELSE LET a == puntos[1]
             b == puntos[Len(puntos)]
             interiores == 2..(Len(puntos) - 1)
             maximos == { j \in interiores :
                            \A i \in interiores :
                                ~MayorQue(Exacta(puntos[i], a, b), Exacta(puntos[j], a, b)) }
             dmax == Exacta(puntos[CHOOSE j \in maximos : TRUE], a, b)
             redondeadas == { j \in maximos :
                                ~enteras \/ ProyeccionInterior(puntos[j], a, b) }
             enLaTolerancia == IgualATolerancia(dmax, eps)
             divide == \/ SuperaTolerancia(dmax, eps)
                       \/ (enLaTolerancia /\ redondeadas # {})
         IN  (IF \/ dmax.n = 0
                 \/ enLaTolerancia
                 \/ \E i, j \in maximos : puntos[i] # puntos[j]
              THEN { << puntos[j], a, b >> : j \in redondeadas }
              ELSE {})
             \cup
             (IF divide
              THEN UNION { TernasEnDuda(SubSeq(puntos, 1, j), eps, enteras)
                           \cup TernasEnDuda(SubSeq(puntos, j, Len(puntos)), eps, enteras) :
                           j \in maximos }
              ELSE {})

\* The triples of TernasEnDuda that can change what the call returns: a tie
\* of distances below the tolerance changes the local indice_max only.
TernasQueDeciden(puntos, eps, enteras) ==
    { t \in TernasEnDuda(puntos, eps, enteras) :
        LET e == Exacta(t[1], t[2], t[3])
        IN  SuperaTolerancia(e, eps) \/ IgualATolerancia(e, eps) }

\* Every rounding of the triples given.  A float is never below 0.0, and
\* roundings that order the triples, the nearest floats and 0.0 alike give
\* the same comparisons: the one whose ranks on either side of 0 are
\* consecutive is kept.
Redondeos(ternas) ==
    LET conocidas == ternas
        sinSigno == { t \in conocidas : Exacta(t[1], t[2], t[3]).n = 0 }
        usados(f) == { f[t] : t \in conocidas }
    IN  { f \in [conocidas -> Niveles(Cardinality(conocidas))] :
            /\ \A t \in sinSigno : f[t] >= 0
            /\ \A r \in usados(f) : r > 1 => r - 1 \in usados(f)
            /\ \A r \in usados(f) : r < -1 => r + 1 \in usados(f) }

-----------------------------------------------------------------------------
(* _simplificar_anillo, lines 127-137 *)

\* Mutant of RetornoAnillo: the ring given is returned only when it has at
\* least 4 points itself
RetornoAnilloSoloValido(an, simp) ==
    IF Len(simp) < 4
    THEN (IF Len(an) >= 4 THEN an ELSE simp)
    ELSE simp

\* Mutant of RetornoAnillo: the floor tested as len(simplificado) < 3
RetornoAnilloPiso3(an, simp) ==
    IF Len(simp) < 3 THEN an ELSE simp

\* Mutant of RetornoAnillo: the floor tested as len(simplificado) <= 4
RetornoAnilloHasta4(an, simp) ==
    IF Len(simp) <= 4 THEN an ELSE simp

\* lines 135-137, given the local simplificado of line 134
RetornoAnillo(an, simp) ==
    IF Len(simp) < 4
    THEN (IF Len(an) >= 4 THEN an ELSE an)
    ELSE simp

simplificar_anillo(an, eps) ==
    RetornoAnillo(an, douglas_peucker(an, eps))

-----------------------------------------------------------------------------
(* One call of _simplificar_anillo on an arbitrary point sequence *)

\* the points the sequences are drawn from
Puntos == { <<x, y>> : x \in {0, 1}, y \in {0, 2} } \cup { << 3, 0 >> }

\* the tolerances: 1/2, 3/5, 1 and 2 units
Tolerancias == { Racional(1, 2), Racional(3, 5), Racional(1, 1), Racional(2, 1) }

SecuenciasDePuntos == UNION { [1..n -> Puntos] : n \in 0..MaxPuntos }

\* the triangle ring of the documented scenario, in its own unit (degrees)
Triangulo == << << 0, 0 >>, << 5, 10 >>, << 10, 0 >>, << 0, 0 >> >>

\* the tolerances the triangle is simplified at: those above, the default
\* 0.008 of _simplificar_anillo (line 127), and 9, 10 and 12 units
ToleranciasDelTriangulo ==
    Tolerancias \cup { Racional(1, 125), Racional(9, 1), Racional(10, 1), Racional(12, 1) }

\* three sequences on which the float of a distance is not the float
\* nearest to the exact distance: in the first the interior point is 3/5
\* from the chord; in the second two interior points are 2 from it; in the
\* third the interior point is on the chord
SecuenciasConEmpate ==
    { << << 0, 2 >>, << 3, 5 >>, << 4, 5 >> >>,
      << << 4, 2 >>, << 0, 5 >>, << 2, 1 >>, << 4, 0 >>, << 4, 2 >> >>,
      << << 0, 0 >>, << 0, 15 >>, << 0, 22 >> >> }

\* values of the pipeline's variables while only the ring call is studied
GeojsonInactivo ==
    /\ entrada = << >>
    /\ geo = << >>
    /\ pc = "inactivo"
    /\ idx = 0
    /\ coords_antes = 0
    /\ coords_despues = 0
    /\ salida = << >>
    /\ error = ""

\* values of the distance call's variables while it is not studied
DistanciaInactiva ==
    /\ punto = << >>
    /\ inicio = << >>
    /\ fin = << >>
    /\ posicion = "inactivo"
    /\ distancia = DistanciaInicial
    /\ divisiones = 0

\* value of the interleaved loop's variable while it is not studied
IntercaladoInactivo ==
    avance = << >>

\* no rounding is listed while no distance is computed
FlotanteInactivo ==
    redondeo = << >>

\* values of the dashboard's variables while it is not studied
TableroInactivo ==
    /\ curY = 0
    /\ curM = 0
    /\ sliderY = "0"
    /\ sliderM = "0"
    /\ playY = [playing |-> FALSE, idx |-> 0]
    /\ playM = [playing |-> FALSE, idx |-> 0]

InitAnillo ==
    /\ \/ /\ anillo \in SecuenciasDePuntos
          /\ epsilon \in Tolerancias
       \/ /\ anillo = Triangulo
          /\ epsilon \in ToleranciasDelTriangulo
       \/ /\ anillo \in SecuenciasConEmpate
          /\ epsilon \in Tolerancias
    /\ redondeo \in Redondeos(TernasEnDuda(anillo, epsilon, TRUE))
    /\ paso = "inicio"
    /\ simplificado = << >>
    /\ retorno = << >>
    /\ GeojsonInactivo
    /\ DistanciaInactiva
    /\ IntercaladoInactivo
    /\ TableroInactivo

\* line 134: simplificado = _douglas_peucker(anillo, epsilon)
LlamarDouglasPeucker ==
    /\ paso = "inicio"
    /\ simplificado' = douglas_peucker(anillo, epsilon)
    /\ paso' = "simplificado"
    /\ UNCHANGED << anillo, epsilon, retorno >>
    /\ UNCHANGED varsGeojson
    /\ UNCHANGED varsDistancia
    /\ UNCHANGED varsIntercalado
    /\ UNCHANGED varsTablero
    /\ UNCHANGED varsFlotante

\* lines 135-137: the validity floor and the return
RetornarAnillo ==
    /\ paso = "simplificado"
    /\ retorno' = RetornoAnillo(anillo, simplificado)
    /\ paso' = "retorno"
    /\ UNCHANGED << anillo, epsilon, simplificado >>
    /\ UNCHANGED varsGeojson
    /\ UNCHANGED varsDistancia
    /\ UNCHANGED varsIntercalado
    /\ UNCHANGED varsTablero
    /\ UNCHANGED varsFlotante

NextAnillo == LlamarDouglasPeucker \/ RetornarAnillo

SpecAnillo == InitAnillo /\ [][NextAnillo]_vars

-----------------------------------------------------------------------------
(* GeoJSON values *)

\* a JSON string and JSON null, as property values
Str(s) == << "str", s >>
Null == << "null" >>

\* How deep the coordinate lists of a geometry nest above its points.  The
\* code finds the points by isinstance(coords[0], (int, float)), lines 147
\* and 175; a value here carries no run-time type, so the depth of a
\* well-formed geometry is taken from its GeoJSON type.
Anidamiento(tipo) ==
    CASE tipo = "Point" -> 0
      [] tipo = "LineString" -> 1
      [] tipo = "Polygon" -> 2
      [] tipo = "MultiPolygon" -> 3

\* Mutant of round3: the next multiple of 3 units above x
round3_arriba(x) == 3 * (x \div 3) + 3

\* round(x, 3), lines 148 and 203, for x counted in units of 1/3000 degree:
\* the nearest multiple of 3 units (0.001 degree).  No x is half-way.
round3(x) == 3 * ((x + 1) \div 3)

\* _redondear_coordenadas(coords, 3), lines 140-149; nivel = 0 is the branch
\* isinstance(coords[0], (int, float)).
RECURSIVE redondear_coordenadas(_, _)
redondear_coordenadas(coords, nivel) ==
    IF nivel = 0
    THEN << round3(coords[1]), round3(coords[2]) >>
    ELSE [k \in 1..Len(coords) |-> redondear_coordenadas(coords[k], nivel - 1)]

\* _redondear_coordenadas raises IndexError: coords[0] of an empty list
\* (line 147) or coords[1] of a one-component point (line 148)
RECURSIVE redondear_IndexError(_, _)
redondear_IndexError(coords, nivel) ==
    \/ Len(coords) = 0
    \/ nivel = 0 /\ Len(coords) < 2
    \/ nivel > 0 /\ \E k \in 1..Len(coords) : redondear_IndexError(coords[k], nivel - 1)

RECURSIVE Suma(_)
Suma(s) == IF Len(s) = 0 THEN 0 ELSE Head(s) + Suma(Tail(s))

\* _contar_coordenadas, lines 173-177
RECURSIVE contar_coordenadas(_, _)
contar_coordenadas(coords, nivel) ==
    IF nivel = 0
    THEN 1
    ELSE Suma([k \in 1..Len(coords) |-> contar_coordenadas(coords[k], nivel - 1)])

\* _contar_coordenadas raises IndexError: coords[0] of an empty list, line 175
RECURSIVE contar_IndexError(_, _)
contar_IndexError(coords, nivel) ==
    \/ Len(coords) = 0
    \/ nivel > 0 /\ \E k \in 1..Len(coords) : contar_IndexError(coords[k], nivel - 1)

\* Mutant of simplificar_geometria: only the outer ring of a polygon is kept
simplificar_geometria_sin_huecos(geom, eps) ==
    IF geom.type = "Polygon"
    THEN [geom EXCEPT !.coordinates = << simplificar_anillo(@[1], eps) >>]
    ELSE IF geom.type = "MultiPolygon"
    THEN [geom EXCEPT !.coordinates =
            [q \in 1..Len(@) |-> << simplificar_anillo(@[q][1], eps) >>]]
    ELSE geom

\* Mutant of simplificar_geometria: every ring that can be rounded is rounded
\* before it is simplified
simplificar_geometria_redondeada(geom, eps) ==
    LET previo(an) == IF redondear_IndexError(an, 1)
                      THEN an
                      ELSE redondear_coordenadas(an, 1)
    IN  IF geom.type = "Polygon"
        THEN [geom EXCEPT !.coordinates =
                [j \in 1..Len(@) |-> simplificar_anillo(previo(@[j]), eps)]]
        ELSE IF geom.type = "MultiPolygon"
        THEN [geom EXCEPT !.coordinates =
                [q \in 1..Len(@) |->
                    [j \in 1..Len(@[q]) |-> simplificar_anillo(previo(@[q][j]), eps)]]]
        ELSE geom

\* _simplificar_anillo raises IndexError: a ring of 3 or more points is
\* scanned by lines 108-115, and _punto_distancia_a_linea reads the second
\* component of both ends and of every interior point (lines 76-84)
anillo_IndexError(an) ==
    /\ Len(an) >= 3
    /\ \E k \in 1..Len(an) : Len(an[k]) < 2

\* _simplificar_geometria raises IndexError
simplificar_IndexError(geom) ==
    \/ /\ geom.type = "Polygon"
       /\ \E j \in 1..Len(geom.coordinates) : anillo_IndexError(geom.coordinates[j])
    \/ /\ geom.type = "MultiPolygon"
       /\ \E q \in 1..Len(geom.coordinates) :
              \E j \in 1..Len(geom.coordinates[q]) :
                  anillo_IndexError(geom.coordinates[q][j])

\* _simplificar_geometria, lines 152-170
simplificar_geometria(geom, eps) ==
    IF geom.type = "Polygon"
    THEN [geom EXCEPT !.coordinates =
            [j \in 1..Len(@) |-> simplificar_anillo(@[j], eps)]]
    ELSE IF geom.type = "MultiPolygon"
    THEN [geom EXCEPT !.coordinates =
            [q \in 1..Len(@) |->
                [j \in 1..Len(@[q]) |-> simplificar_anillo(@[q][j], eps)]]]
    ELSE geom

-----------------------------------------------------------------------------
(* simplificar_geojson, lines 180-223 *)

\* epsilon=0.008 of line 202: 0.008 degree = 24 units of 1/3000 degree
EpsilonGeojson == Racional(24, 1)

\* Mutant of PropiedadesReducidas: the two entries added to the mapping
\* (properties.update) instead of replacing it
PropiedadesActualizadas(props) ==
    [k \in DOMAIN props \cup {"c", "n"} |->
        IF k = "c" THEN props["DPTOMPIO"]
        ELSE IF k = "n" THEN props["MPIO_CNMBR"]
        ELSE props[k]]

\* the mapping built by lines 208-211
PropiedadesReducidas(props) ==
    [c |-> props["DPTOMPIO"], n |-> props["MPIO_CNMBR"]]

\* lines 209-210 raise KeyError
propiedades_KeyError(props) ==
    \/ "DPTOMPIO" \notin DOMAIN props
    \/ "MPIO_CNMBR" \notin DOMAIN props

\* feat['geometry'] = ..., feat['geometry']['coordinates'] = ... on the
\* feature at position i of geo['features'] (lines 202-203)
AsignarGeometria(g, i, geom) ==
    [g EXCEPT !.features[i].geometry = geom]

\* Mutant of AsignarPropiedades: the mapping lands on the first feature
AsignarPropiedadesAlPrimero(g, i, props) ==
    [g EXCEPT !.features[1].properties = props]

\* feat['properties'] = {...} on the feature at position i (line 208)
AsignarPropiedades(g, i, props) ==
    [g EXCEPT !.features[i].properties = props]

\* line 196: the coordinate count of every feature, summed
ContarColeccion(g) ==
    Suma([i \in 1..Len(g.features) |->
            contar_coordenadas(g.features[i].geometry.coordinates,
                               Anidamiento(g.features[i].geometry.type))])

ContarColeccion_IndexError(g) ==
    \E i \in 1..Len(g.features) :
        contar_IndexError(g.features[i].geometry.coordinates,
                          Anidamiento(g.features[i].geometry.type))

\* the rings of the inputs, in units of 1/3000 degree
Pt(x, y) == << x, y >>

\* a square outline with one vertex 1 unit off its left side
AnilloCuadrado ==
    << Pt(1, 1), Pt(2, 31), Pt(1, 61), Pt(61, 61), Pt(61, 1), Pt(1, 1) >>

\* a triangular hole, every vertex within epsilon of the first
AnilloHueco ==
    << Pt(10, 10), Pt(20, 10), Pt(10, 20), Pt(10, 10) >>

\* a second outline: five corners and one vertex 7 units off a side
AnilloIsla ==
    << Pt(70, 70), Pt(100, 71), Pt(115, 85), Pt(100, 100), Pt(85, 107), Pt(70, 100), Pt(70, 70) >>

\* an outline with a vertex 27 units off the side joining its neighbours;
\* after rounding, the same vertex is 18 units off
AnilloSaliente ==
    << Pt(0, 0), Pt(-25, 29), Pt(5, 60), Pt(60, 60), Pt(60, 0), Pt(0, 0) >>

\* the square outline with a third component (an altitude) on every point
AnilloConAltura ==
    << << 1, 1, 500 >>, << 2, 31, 500 >>, << 1, 61, 500 >>,
       << 61, 61, 500 >>, << 61, 1, 500 >>, << 1, 1, 500 >> >>

\* an outline with two vertices at the same distance, 2880 / sqrt(5760)
\* units, of the chord joining their neighbours: whichever line 113 takes
\* for the farther one is kept, and the other is dropped
AnilloEmpatado ==
    << Pt(104, 32), Pt(32, 56), Pt(56, 88), Pt(80, 80), Pt(104, 32) >>

\* an outline that passes three times through its first point.  The chord
\* from (0, 0) to (72, 96) is scanned twice, over (21, 68) alone and over
\* (21, 68) and (30, 80), both 24 units from it: (21, 68) is kept by the
\* first scan when its float is above the tolerance, and by the second when
\* its float is not below that of (30, 80)
AnilloRepetido ==
    << Pt(0, 0), Pt(21, 68), Pt(72, 96), Pt(-20, 15), Pt(0, 0),
       Pt(21, 68), Pt(30, 80), Pt(72, 96), Pt(0, 0) >>

\* points of one component: a ring short enough to skip the scan of
\* _douglas_peucker, and one that is scanned
AnilloCortoDeUnaComponente == << << 5 >>, << 5 >> >>
AnilloDeUnaComponente == << << 5 >>, << 8 >>, << 9 >>, << 5 >> >>

Geometrias ==
    { [type |-> "Polygon", coordinates |-> << AnilloCuadrado, AnilloHueco >>],
      [type |-> "MultiPolygon",
       coordinates |-> << << AnilloIsla >>, << AnilloCuadrado, AnilloHueco >> >>],
      [type |-> "LineString", coordinates |-> << Pt(1, 1), Pt(2, 31), Pt(1, 61) >>],
      [type |-> "Polygon", coordinates |-> << >>],
      [type |-> "Polygon", coordinates |-> << AnilloSaliente >>],
      [type |-> "Polygon", coordinates |-> << AnilloConAltura >>],
      [type |-> "Polygon", coordinates |-> << AnilloCortoDeUnaComponente >>],
      [type |-> "MultiPolygon", coordinates |-> << << AnilloDeUnaComponente >> >>] }

Propiedades ==
    { [DPTOMPIO |-> Str("05001"), MPIO_CNMBR |-> Str("MEDELLIN"), AREA |-> Str("380.64")],
      [DPTOMPIO |-> Str("08001"), MPIO_CNMBR |-> Str("BARRANQUILLA")],
      [MPIO_CNMBR |-> Str("LETICIA")],
      [DPTOMPIO |-> Str("11001")],
      [DPTOMPIO |-> Null, MPIO_CNMBR |-> Str("TARAPACA")],
      [DPTOMPIO |-> Str(""), MPIO_CNMBR |-> Str("MAPIRIPANA")] }

\* a feature whose outline is the tied one
FeatureEmpatada ==
    [geometry |-> [type |-> "Polygon", coordinates |-> << AnilloEmpatado >>],
     properties |-> [DPTOMPIO |-> Str("13001"), MPIO_CNMBR |-> Str("CARTAGENA")]]

\* a feature whose outline is the one scanned twice
FeatureRepetida ==
    [geometry |-> [type |-> "Polygon", coordinates |-> << AnilloRepetido >>],
     properties |-> [DPTOMPIO |-> Str("47001"), MPIO_CNMBR |-> Str("SANTA MARTA")]]

Features ==
    { [geometry |-> g, properties |-> p] : g \in Geometrias, p \in Propiedades }
        \cup { FeatureEmpatada }

Colecciones ==
    { [type |-> "FeatureCollection", features |-> fs] :
        fs \in UNION { [1..n -> Features] : n \in 0..MaxFeatures } }

\* the triples of TernasQueDeciden for the rings of a geometry that lines
\* 108-115 scan without raising; the coordinates are floats of degrees
TernasDeLaGeometria(geom) ==
    LET deAnillo(an) == IF anillo_IndexError(an)
                        THEN {}
                        ELSE TernasQueDeciden(an, EpsilonGeojson, FALSE)
    IN  IF geom.type = "Polygon"
        THEN UNION { deAnillo(geom.coordinates[j]) : j \in 1..Len(geom.coordinates) }
        ELSE IF geom.type = "MultiPolygon"
        THEN UNION { UNION { deAnillo(geom.coordinates[q][j]) :
                                j \in 1..Len(geom.coordinates[q]) } :
                        q \in 1..Len(geom.coordinates) }
        ELSE {}

TernasDeLaColeccion(g) ==
    UNION { TernasDeLaGeometria(g.features[i].geometry) : i \in 1..Len(g.features) }

\* values of the ring call's variables while the pipeline is studied
AnilloInactivo ==
    /\ anillo = << >>
    /\ epsilon = EpsilonGeojson
    /\ paso = "inactivo"
    /\ simplificado = << >>
    /\ retorno = << >>

Init ==
    /\ entrada \in Colecciones
    /\ redondeo \in Redondeos(TernasDeLaColeccion(entrada))
    /\ geo = << >>
    /\ pc = "cargar"
    /\ idx = 0
    /\ coords_antes = 0
    /\ coords_despues = 0
    /\ salida = << >>
    /\ error = ""
    /\ AnilloInactivo
    /\ DistanciaInactiva
    /\ IntercaladoInactivo
    /\ TableroInactivo

\* the run ends with an exception
Lanzar(nombre) ==
    /\ pc' = "error"
    /\ error' = nombre

\* lines 192-198: load the file, count the coordinates, enter the loop
Cargar ==
    /\ pc = "cargar"
    /\ geo' = entrada
    /\ IF ContarColeccion_IndexError(entrada)
       THEN /\ Lanzar("IndexError")
            /\ UNCHANGED << idx, coords_antes >>
       ELSE /\ coords_antes' = ContarColeccion(entrada)
            /\ idx' = 1
            /\ pc' = IF Len(entrada.features) = 0 THEN "metricas" ELSE "simplificar"
            /\ error' = error
    /\ UNCHANGED << entrada, coords_despues, salida >>
    /\ UNCHANGED varsAnillo
    /\ UNCHANGED varsDistancia
    /\ UNCHANGED varsIntercalado
    /\ UNCHANGED varsTablero
    /\ UNCHANGED varsFlotante

\* line 202: feat['geometry'] = _simplificar_geometria(feat['geometry'], epsilon=0.008)
SimplificarFeature ==
    /\ pc = "simplificar"
    /\ IF simplificar_IndexError(geo.features[idx].geometry)
       THEN /\ Lanzar("IndexError")
            /\ geo' = geo
       ELSE /\ geo' = AsignarGeometria(geo, idx,
                         simplificar_geometria(geo.features[idx].geometry, EpsilonGeojson))
            /\ pc' = "redondear"
            /\ error' = error
    /\ UNCHANGED << entrada, idx, coords_antes, coords_despues, salida >>
    /\ UNCHANGED varsAnillo
    /\ UNCHANGED varsDistancia
    /\ UNCHANGED varsIntercalado
    /\ UNCHANGED varsTablero
    /\ UNCHANGED varsFlotante

\* line 203: feat['geometry']['coordinates'] = _redondear_coordenadas(..., 3)
RedondearFeature ==
    /\ pc = "redondear"
    /\ LET geom == geo.features[idx].geometry
       IN  IF redondear_IndexError(geom.coordinates, Anidamiento(geom.type))
           THEN /\ Lanzar("IndexError")
                /\ geo' = geo
           ELSE /\ geo' = AsignarGeometria(geo, idx,
                             [geom EXCEPT !.coordinates =
                                 redondear_coordenadas(@, Anidamiento(geom.type))])
                /\ pc' = "propiedades"
                /\ error' = error
    /\ UNCHANGED << entrada, idx, coords_antes, coords_despues, salida >>
    /\ UNCHANGED varsAnillo
    /\ UNCHANGED varsDistancia
    /\ UNCHANGED varsIntercalado
    /\ UNCHANGED varsTablero
    /\ UNCHANGED varsFlotante

\* lines 208-211, then the next feature of the loop of line 201
ReducirPropiedades ==
    /\ pc = "propiedades"
    /\ LET props == geo.features[idx].properties
       IN  IF propiedades_KeyError(props)
           THEN /\ Lanzar("KeyError")
                /\ UNCHANGED << geo, idx >>
           ELSE /\ geo' = AsignarPropiedades(geo, idx, PropiedadesReducidas(props))
                /\ idx' = idx + 1
                /\ pc' = IF idx + 1 > Len(geo.features) THEN "metricas" ELSE "simplificar"
                /\ error' = error
    /\ UNCHANGED << entrada, coords_antes, coords_despues, salida >>
    /\ UNCHANGED varsAnillo
    /\ UNCHANGED varsDistancia
    /\ UNCHANGED varsIntercalado
    /\ UNCHANGED varsTablero
    /\ UNCHANGED varsFlotante

\* lines 213-216: count again, compute the reduction
Metricas ==
    /\ pc = "metricas"
    /\ coords_despues' = ContarColeccion(geo)
    /\ IF coords_antes = 0
       THEN Lanzar("ZeroDivisionError")
       ELSE /\ pc' = "serializar"
            /\ error' = error
    /\ UNCHANGED << entrada, geo, idx, coords_antes, salida >>
    /\ UNCHANGED varsAnillo
    /\ UNCHANGED varsDistancia
    /\ UNCHANGED varsIntercalado
    /\ UNCHANGED varsTablero
    /\ UNCHANGED varsFlotante

\* lines 219-223: serialise the collection and return it
Retornar ==
    /\ pc = "serializar"
    /\ salida' = geo
    /\ pc' = "retornado"
    /\ UNCHANGED << entrada, geo, idx, coords_antes, coords_despues, error >>
    /\ UNCHANGED varsAnillo
    /\ UNCHANGED varsDistancia
    /\ UNCHANGED varsIntercalado
    /\ UNCHANGED varsTablero
    /\ UNCHANGED varsFlotante

Next ==
    \/ Cargar
    \/ SimplificarFeature
    \/ RedondearFeature
    \/ ReducirPropiedades
    \/ Metricas
    \/ Retornar

Spec == Init /\ [][Next]_vars

-----------------------------------------------------------------------------
(* One call of _punto_distancia_a_linea on three points *)

\* the call, when lines 81-84 round what it returns: whole coordinates, a
\* projection inside the segment and a point off it
TernasDeLaLlamada(p, a, b) ==
    IF ProyeccionInterior(p, a, b)
    THEN { << p, a, b >> }
    ELSE {}

\* the points the three arguments are drawn from
PuntosDeDistancia ==
    { << x, y >> : x \in 0..MaxCoordenada, y \in 0..MaxCoordenada }
        \cup { << 0, 15 >>, << 0, 22 >> }

InitDistancia ==
    /\ punto \in PuntosDeDistancia
    /\ inicio \in PuntosDeDistancia
    /\ fin \in PuntosDeDistancia
    /\ redondeo \in Redondeos(TernasDeLaLlamada(punto, inicio, fin))
    /\ posicion = "llamada"
    /\ distancia = DistanciaInicial
    /\ divisiones = 0
    /\ AnilloInactivo
    /\ GeojsonInactivo
    /\ IntercaladoInactivo
    /\ TableroInactivo

\* lines 76-84: the whole call
EvaluarDistancia ==
    /\ posicion = "llamada"
    /\ distancia' = punto_distancia_a_linea(punto, inicio, fin)
    /\ divisiones' = DivisionesDeLaLlamada(punto, inicio, fin)
    /\ posicion' = "retornado"
    /\ UNCHANGED << punto, inicio, fin >>
    /\ UNCHANGED varsAnillo
    /\ UNCHANGED varsGeojson
    /\ UNCHANGED varsIntercalado
    /\ UNCHANGED varsTablero
    /\ UNCHANGED varsFlotante

NextDistancia == EvaluarDistancia

SpecDistancia == InitDistancia /\ [][NextDistancia]_vars

-----------------------------------------------------------------------------
(* The body of the loop of lines 201-211 run on the features in any order:
   each feature takes its three steps (line 202, line 203, lines 208-211) in
   order, and a step of any feature may come between two steps of another.
   The loop of line 201 itself takes the features one after the other (Spec);
   the orders added here are those of an execution that treats the features
   in parallel.  Lines 196 and 213-223 run before and after, as in Spec. *)

\* features of the collections whose steps are interleaved: rings that the
\* steps change, a ring that line 203 rejects, a mapping without DPTOMPIO
FeaturesIntercaladas ==
    { [geometry |-> g, properties |-> p] :
        g \in { [type |-> "Polygon", coordinates |-> << AnilloCuadrado, AnilloHueco >>],
                [type |-> "Polygon", coordinates |-> << AnilloSaliente >>],
                [type |-> "MultiPolygon",
                 coordinates |-> << << AnilloIsla >>, << AnilloCuadrado, AnilloHueco >> >>],
                [type |-> "Polygon", coordinates |-> << AnilloCortoDeUnaComponente >>] },
        p \in { [DPTOMPIO |-> Str("05001"), MPIO_CNMBR |-> Str("MEDELLIN"), AREA |-> Str("380.64")],
                [DPTOMPIO |-> Str("08001"), MPIO_CNMBR |-> Str("BARRANQUILLA")],
                [MPIO_CNMBR |-> Str("LETICIA")] } }
        \cup { FeatureRepetida }

ColeccionesIntercaladas ==
    { [type |-> "FeatureCollection", features |-> fs] :
        fs \in UNION { [1..n -> FeaturesIntercaladas] : n \in 1..MaxFeatures } }

\* the collection is loaded (line 193), its coordinates are counted (line
\* 196) and no feature has been touched
InitIntercalado ==
    /\ entrada \in ColeccionesIntercaladas
    /\ ~ContarColeccion_IndexError(entrada)
    /\ redondeo \in Redondeos(TernasDeLaColeccion(entrada))
    /\ geo = entrada
    /\ pc = "bucle"
    /\ idx = 0
    /\ coords_antes = ContarColeccion(entrada)
    /\ coords_despues = 0
    /\ salida = << >>
    /\ error = ""
    /\ avance = [i \in 1..Len(entrada.features) |-> "simplificar"]
    /\ AnilloInactivo
    /\ DistanciaInactiva
    /\ TableroInactivo

\* line 202 on the feature at position i
SimplificarUna(i) ==
    /\ pc = "bucle"
    /\ avance[i] = "simplificar"
    /\ IF simplificar_IndexError(geo.features[i].geometry)
       THEN /\ Lanzar("IndexError")
            /\ UNCHANGED << geo, avance >>
       ELSE /\ geo' = AsignarGeometria(geo, i,
                         simplificar_geometria(geo.features[i].geometry, EpsilonGeojson))
            /\ avance' = [avance EXCEPT ![i] = "redondear"]
            /\ UNCHANGED << pc, error >>
    /\ UNCHANGED << entrada, idx, coords_antes, coords_despues, salida >>
    /\ UNCHANGED << varsAnillo, varsDistancia, varsTablero, varsFlotante >>

\* line 203 on the feature at position i
RedondearUna(i) ==
    /\ pc = "bucle"
    /\ avance[i] = "redondear"
    /\ LET geom == geo.features[i].geometry
       IN  IF redondear_IndexError(geom.coordinates, Anidamiento(geom.type))
           THEN /\ Lanzar("IndexError")
                /\ UNCHANGED << geo, avance >>
           ELSE /\ geo' = AsignarGeometria(geo, i,
                             [geom EXCEPT !.coordinates =
                                 redondear_coordenadas(@, Anidamiento(geom.type))])
                /\ avance' = [avance EXCEPT ![i] = "propiedades"]
                /\ UNCHANGED << pc, error >>
    /\ UNCHANGED << entrada, idx, coords_antes, coords_despues, salida >>
    /\ UNCHANGED << varsAnillo, varsDistancia, varsTablero, varsFlotante >>

\* lines 208-211 on the feature at position i; when it was the last one due,
\* the loop is left for line 213
ReducirUna(i) ==
    /\ pc = "bucle"
    /\ avance[i] = "propiedades"
    /\ LET props == geo.features[i].properties
       IN  IF propiedades_KeyError(props)
           THEN /\ Lanzar("KeyError")
                /\ UNCHANGED << geo, avance >>
           ELSE /\ geo' = AsignarPropiedades(geo, i, PropiedadesReducidas(props))
                /\ avance' = [avance EXCEPT ![i] = "hecho"]
                /\ pc' = IF \A k \in 1..Len(avance) : k = i \/ avance[k] = "hecho"
                         THEN "metricas"
                         ELSE "bucle"
                /\ error' = error
    /\ UNCHANGED << entrada, idx, coords_antes, coords_despues, salida >>
    /\ UNCHANGED << varsAnillo, varsDistancia, varsTablero, varsFlotante >>

NextIntercalado ==
    \/ \E i \in 1..Len(avance) : SimplificarUna(i)
    \/ \E i \in 1..Len(avance) : RedondearUna(i)
    \/ \E i \in 1..Len(avance) : ReducirUna(i)
    \/ Metricas
    \/ Retornar

SpecIntercalado == InitIntercalado /\ [][NextIntercalado]_vars

-----------------------------------------------------------------------------
(* The dashboard script, lines 726-1011: the state curY, curM, the two range
   inputs and the two players.  A handler runs to its end before the next
   event is taken, so each handler is one step; the handlers of the sliders,
   of the sparkline bars and of the timers end with update(). *)

\* max="27" of sliderY (line 693), maxVal of the player of line 1004
MaxY == 27

\* max="12" of sliderM (line 701), maxVal of the player of line 1005
MaxM == 12

\* const YEARS (line 728): 0, then 1998 to 2024; YEARS[i] of the script is
\* YEARS[i + 1] here
YEARS == << 0 >> \o [i \in 1..27 |-> 1997 + i]

\* YEARS[i] as the script evaluates it; -1 stands for undefined
YearsEn(i) == IF i >= 0 /\ i < Len(YEARS) THEN YEARS[i + 1] ELSE -1

Digitos == << "0", "1", "2", "3", "4", "5", "6", "7", "8", "9" >>

\* the string a range input holds for the number n, 0 <= n <= 99
Cadena(n) ==
    IF n < 10 THEN Digitos[n + 1] ELSE Digitos[(n \div 10) + 1] \o Digitos[(n % 10) + 1]

\* parseInt of such a string
parseInt(s) == CHOOSE n \in 0..99 : Cadena(n) = s

\* slider.value = v on a range input with min="0", max=maxVal, step="1":
\* the value is brought into the range and stored as a string
AsignarSlider(v, maxVal) ==
    Cadena(IF v < 0 THEN 0 ELSE IF v > maxVal THEN maxVal ELSE v)

\* the positions a user drags the year slider and the month slider to
PosicionesY == { 0, 1, 14, MaxY }
PosicionesM == { 0, 1, 6, MaxM }

\* the sparkline bars a user clicks (data-m of line 917)
BarrasPulsadas == { 1, 7, 12 }

\* the state after the script has run to line 1011.  Line 735 sets curY and
\* curM to 0 and no line of the script writes or reads the range inputs
\* before an event: they hold value="0" (lines 693, 701) on a first load, and
\* the positions they were left at when the browser loads the page again
\* through the session history and restores its form controls.
InitTablero ==
    /\ curY = 0
    /\ curM = 0
    /\ sliderY \in { Cadena(n) : n \in 0..MaxY }
    /\ sliderM \in { Cadena(n) : n \in 0..MaxM }
    /\ playY = [playing |-> FALSE, idx |-> 0]
    /\ playM = [playing |-> FALSE, idx |-> 0]
    /\ AnilloInactivo
    /\ GeojsonInactivo
    /\ DistanciaInactiva
    /\ IntercaladoInactivo
    /\ FlotanteInactivo

\* lines 958-961: the input listener of sliderY
InputSliderY ==
    /\ \E v \in PosicionesY :
           /\ sliderY' = Cadena(v)
           /\ curY' = YearsEn(parseInt(Cadena(v)))
    /\ UNCHANGED << curM, sliderM, playY, playM >>
    /\ UNCHANGED << varsAnillo, varsGeojson, varsDistancia, varsIntercalado, varsFlotante >>

\* lines 963-966: the input listener of sliderM
InputSliderM ==
    /\ \E v \in PosicionesM :
           /\ sliderM' = Cadena(v)
           /\ curM' = parseInt(Cadena(v))
    /\ UNCHANGED << curY, sliderY, playY, playM >>
    /\ UNCHANGED << varsAnillo, varsGeojson, varsDistancia, varsIntercalado, varsFlotante >>

\* lines 928-933: the click listener of a sparkline bar
ClickSparkline ==
    /\ \E b \in BarrasPulsadas :
           LET m == parseInt(Cadena(b))
           IN  /\ curM' = m
               /\ sliderM' = AsignarSlider(m, MaxM)
    /\ UNCHANGED << curY, sliderY, playY, playM >>
    /\ UNCHANGED << varsAnillo, varsGeojson, varsDistancia, varsIntercalado, varsFlotante >>

\* lines 977-1000, the click listener of a play button: the closure after it.
\* The idx of line 986 belongs to one run of the listener and to the timer it
\* starts; once the timer is cleared nothing reads it, and it is kept at 0.
ClickDelReproductor(p, valor, maxVal) ==
    IF p.playing
    THEN [playing |-> FALSE, idx |-> 0]
    ELSE [playing |-> TRUE,
          idx |-> IF parseInt(valor) >= maxVal THEN 0 ELSE parseInt(valor)]

\* lines 989-995, the timer callback: the closure after idx++ and the test
\* of the end; idx is then what lines 996-997 store
TickDelReproductor(p, maxVal) ==
    IF p.idx + 1 > maxVal
    THEN [playing |-> FALSE, idx |-> 0]
    ELSE [playing |-> TRUE, idx |-> p.idx + 1]

ClickPlayY ==
    /\ playY' = ClickDelReproductor(playY, sliderY, MaxY)
    /\ UNCHANGED << curY, curM, sliderY, sliderM, playM >>
    /\ UNCHANGED << varsAnillo, varsGeojson, varsDistancia, varsIntercalado, varsFlotante >>

ClickPlayM ==
    /\ playM' = ClickDelReproductor(playM, sliderM, MaxM)
    /\ UNCHANGED << curY, curM, sliderY, sliderM, playY >>
    /\ UNCHANGED << varsAnillo, varsGeojson, varsDistancia, varsIntercalado, varsFlotante >>

\* lines 988-999 for the player of line 1004: setCur is curY = YEARS[i]
TickY ==
    /\ playY.playing
    /\ LET q == TickDelReproductor(playY, MaxY)
       IN  /\ sliderY' = AsignarSlider(q.idx, MaxY)
           /\ curY' = YearsEn(q.idx)
           /\ playY' = q
    /\ UNCHANGED << curM, sliderM, playM >>
    /\ UNCHANGED << varsAnillo, varsGeojson, varsDistancia, varsIntercalado, varsFlotante >>

\* lines 988-999 for the player of line 1005: setCur is curM = i
TickM ==
    /\ playM.playing
    /\ LET q == TickDelReproductor(playM, MaxM)
       IN  /\ sliderM' = AsignarSlider(q.idx, MaxM)
           /\ curM' = q.idx
           /\ playM' = q
    /\ UNCHANGED << curY, sliderY, playY >>
    /\ UNCHANGED << varsAnillo, varsGeojson, varsDistancia, varsIntercalado, varsFlotante >>

NextTablero ==
    \/ InputSliderY
    \/ InputSliderM
    \/ ClickSparkline
    \/ ClickPlayY
    \/ ClickPlayM
    \/ TickY
    \/ TickM

SpecTablero == InitTablero /\ [][NextTablero]_vars

-----------------------------------------------------------------------------
(* Properties of the Line Simplifier and the Ring Normalizer *)

\* s[i..] can be read off t[j..] at strictly increasing positions
RECURSIVE SubsecuenciaDesde(_, _, _, _)
SubsecuenciaDesde(s, t, i, j) ==
    IF i > Len(s) THEN TRUE
    ELSE IF j > Len(t) THEN FALSE
    ELSE IF s[i] = t[j] THEN SubsecuenciaDesde(s, t, i + 1, j + 1)
    ELSE SubsecuenciaDesde(s, t, i, j + 1)

EsSubsecuencia(s, t) == SubsecuenciaDesde(s, t, 1, 1)

\* a < b for two tolerances
ToleranciaMenor(a, b) == a.n * b.d < b.n * a.d

\* the scan of the whole input and whether the top-level call splits
MaximoDeAnillo == BuscarMaximo(anillo, 1, 0, DistanciaInicial)
DivideAnillo == Len(anillo) > 2 /\ SuperaTolerancia(MaximoDeAnillo.distancia_max, epsilon)

\* C1: the result of _douglas_peucker is a subsequence of its input taken at
\* strictly increasing positions, no longer than the input; where the call
\* splits, the result is the left result followed by the right result without
\* its first point, so the split point stands once, where the two halves join.
C1_Subsecuencia ==
    paso # "inicio" =>
        /\ EsSubsecuencia(simplificado, anillo)
        /\ Len(simplificado) <= Len(anillo)
        /\ DivideAnillo =>
            LET k   == MaximoDeAnillo.indice_max
                izq == douglas_peucker(SubSeq(anillo, 1, k + 1), epsilon)
                der == douglas_peucker(SubSeq(anillo, k + 1, Len(anillo)), epsilon)
            IN  /\ Len(simplificado) = Len(izq) + Len(der) - 1
                /\ simplificado[Len(izq)] = anillo[k + 1]
                /\ SubSeq(simplificado, 1, Len(izq)) = izq
                /\ SubSeq(simplificado, Len(izq), Len(simplificado)) = der

\* a call that split and still dropped a point
C1_Witness ==
    /\ paso = "simplificado"
    /\ DivideAnillo
    /\ Len(anillo) = 5
    /\ Len(simplificado) = 4

\* C2: for a non-empty input the result of _douglas_peucker starts with the
\* first input point and ends with the last input point.
C2_Extremos ==
    (paso # "inicio" /\ Len(anillo) >= 1) =>
        /\ Len(simplificado) >= 1
        /\ simplificado[1] = anillo[1]
        /\ simplificado[Len(simplificado)] = anillo[Len(anillo)]

\* an open line of five points reduced to three, ends distinct
C2_Witness ==
    /\ paso = "simplificado"
    /\ Len(anillo) = 5
    /\ anillo[1] # anillo[5]
    /\ Len(simplificado) = 3

\* C3 as stated: whatever the ring, _simplificar_anillo returns at least 4 points.
C3_Original ==
    paso = "retorno" => Len(retorno) >= 4

\* C3 amended: a ring of at least 4 points comes back from _simplificar_anillo
\* with at least 4 points.
C3_PisoDeValidez ==
    (paso = "retorno" /\ Len(anillo) >= 4) => Len(retorno) >= 4

\* a ring of five points whose simplification fell to three
C3_Witness ==
    /\ paso = "retorno"
    /\ Len(anillo) = 5
    /\ Len(simplificado) = 3
    /\ Len(retorno) = 5

\* C4: _simplificar_anillo simplifies once, at the tolerance given; when that
\* result has fewer than 4 points it returns the ring it was given, point for
\* point, and otherwise it returns the simplified ring.
C4_OriginalOSimplificado ==
    paso = "retorno" =>
        /\ simplificado = douglas_peucker(anillo, epsilon)
        /\ Len(simplificado) < 4 => retorno = anillo
        /\ Len(simplificado) >= 4 => retorno = simplificado

\* the fallback taken on a ring that the simplifier had shortened
C4_Witness ==
    /\ paso = "retorno"
    /\ Len(anillo) >= 4
    /\ Len(simplificado) < 4
    /\ simplificado # anillo
    /\ retorno = anillo

\* the simplified ring returned, shorter than the one given
C4_WitnessSimplificado ==
    /\ paso = "retorno"
    /\ Len(simplificado) = 4
    /\ Len(anillo) = 5
    /\ retorno = simplificado

\* C5: at a smaller tolerance _douglas_peucker keeps at least as many points,
\* at a larger one at most as many.
C5_Monotonia ==
    paso # "inicio" =>
        \A t \in Tolerancias :
            /\ ToleranciaMenor(t, epsilon) =>
                   Len(douglas_peucker(anillo, t)) >= Len(simplificado)
            /\ ToleranciaMenor(epsilon, t) =>
                   Len(douglas_peucker(anillo, t)) <= Len(simplificado)

\* three tolerances, three different point counts for one input
C5_Witness ==
    /\ paso = "simplificado"
    /\ \E t1, t2 \in Tolerancias :
           /\ ToleranciaMenor(t1, epsilon)
           /\ ToleranciaMenor(epsilon, t2)
           /\ Len(douglas_peucker(anillo, t1)) > Len(simplificado)
           /\ Len(simplificado) > Len(douglas_peucker(anillo, t2))

-----------------------------------------------------------------------------
(* Properties of the Geometry Transformer and the Collection Processor *)

Reconocida(tipo) == tipo \in {"Polygon", "MultiPolygon"}

\* lines 202-203 have returned for the feature at position i
Transformada(i) ==
    /\ pc \notin {"inactivo", "cargar"}
    /\ i < idx \/ (i = idx /\ pc = "propiedades")

\* what one ring becomes, from that ring alone
AnilloTransformado(an) ==
    redondear_coordenadas(simplificar_anillo(an, EpsilonGeojson), 1)

\* what lines 202-203 make of a geometry
GeometriaTransformada(geom) ==
    [simplificar_geometria(geom, EpsilonGeojson) EXCEPT
        !.coordinates = redondear_coordenadas(@, Anidamiento(geom.type))]

\* C6: once lines 202-203 have run on a feature, a Polygon is still a Polygon
\* with as many rings, a MultiPolygon still a MultiPolygon with as many
\* polygons, each with as many rings, and the ring at every position is the
\* normalized and rounded ring of the same position of the input.
C6_EstructuraPreservada ==
    \A i \in 1..Len(entrada.features) :
        (Transformada(i) /\ Reconocida(entrada.features[i].geometry.type)) =>
            LET a == entrada.features[i].geometry
                b == geo.features[i].geometry
            IN  /\ b.type = a.type
                /\ Len(b.coordinates) = Len(a.coordinates)
                /\ a.type = "Polygon" =>
                       \A j \in 1..Len(a.coordinates) :
                           b.coordinates[j] = AnilloTransformado(a.coordinates[j])
                /\ a.type = "MultiPolygon" =>
                       \A q \in 1..Len(a.coordinates) :
                           /\ Len(b.coordinates[q]) = Len(a.coordinates[q])
                           /\ \A j \in 1..Len(a.coordinates[q]) :
                                  b.coordinates[q][j] = AnilloTransformado(a.coordinates[q][j])

\* a Polygon with a hole and a MultiPolygon of two members, both transformed,
\* with rings that the transformation changed
C6_Witness ==
    /\ pc = "propiedades"
    /\ idx = 2
    /\ entrada.features[1].geometry.type = "Polygon"
    /\ entrada.features[2].geometry.type = "MultiPolygon"
    /\ Len(geo.features[2].geometry.coordinates) = 2
    /\ Len(geo.features[2].geometry.coordinates[2]) = 2
    /\ geo.features[1].geometry.coordinates[1] # entrada.features[1].geometry.coordinates[1]

\* C7: the collection keeps its number of features throughout the run, and
\* the returned collection has, at every position, the feature made from the
\* input feature of that position.
C7_MismasFeatures ==
    /\ pc \notin {"inactivo", "cargar"} =>
           Len(geo.features) = Len(entrada.features)
    /\ pc = "retornado" =>
           /\ Len(salida.features) = Len(entrada.features)
           /\ \A i \in 1..Len(entrada.features) :
                  /\ salida.features[i].properties.c =
                         entrada.features[i].properties["DPTOMPIO"]
                  /\ salida.features[i].geometry =
                         GeometriaTransformada(entrada.features[i].geometry)

\* a returned collection of two features that differ in geometry and code
C7_Witness ==
    /\ pc = "retornado"
    /\ Len(entrada.features) = 2
    /\ entrada.features[1].geometry # entrada.features[2].geometry
    /\ entrada.features[1].properties["DPTOMPIO"] # entrada.features[2].properties["DPTOMPIO"]
    /\ Len(salida.features) = 2

\* C8: every feature of the returned collection has a property mapping of
\* exactly two entries, c and n, holding that feature's own DPTOMPIO and
\* MPIO_CNMBR values from the input.
C8_DosPropiedades ==
    pc = "retornado" =>
        \A i \in 1..Len(salida.features) :
            /\ DOMAIN salida.features[i].properties = {"c", "n"}
            /\ salida.features[i].properties.c = entrada.features[i].properties["DPTOMPIO"]
            /\ salida.features[i].properties.n = entrada.features[i].properties["MPIO_CNMBR"]

\* a returned feature whose input carried a third property
C8_Witness ==
    /\ pc = "retornado"
    /\ \E i \in 1..Len(entrada.features) :
           /\ "AREA" \in DOMAIN entrada.features[i].properties
           /\ "AREA" \notin DOMAIN salida.features[i].properties

\* C9: lines 202-203 do not return normally for a geometry whose type is
\* neither Polygon nor MultiPolygon.
C9_EtiquetaDesconocidaEsError ==
    \A i \in 1..Len(entrada.features) :
        Transformada(i) => Reconocida(entrada.features[i].geometry.type)

\* C10: no returned feature has an identifier that is absent, null or empty.
C10_IdentificadorPresente ==
    pc = "retornado" =>
        \A i \in 1..Len(salida.features) :
            /\ "c" \in DOMAIN salida.features[i].properties
            /\ salida.features[i].properties.c # Null
            /\ salida.features[i].properties.c # Str("")

-----------------------------------------------------------------------------
(* Order of simplification and rounding *)

\* the rings of a recognised geometry, one sequence whatever its type
AnillosDe(geom) ==
    IF geom.type = "Polygon"
    THEN geom.coordinates
    ELSE [k \in 1..Suma([q \in 1..Len(geom.coordinates) |-> Len(geom.coordinates[q])]) |->
            LET RECURSIVE Buscar(_, _)
                Buscar(q, r) ==
                    IF r <= Len(geom.coordinates[q])
                    THEN geom.coordinates[q][r]
                    ELSE Buscar(q + 1, r - Len(geom.coordinates[q]))
            IN  Buscar(1, k)]

\* a ring simplified from its original points and rounded afterwards
RedondeoDeSimplificado(an) ==
    redondear_coordenadas(simplificar_anillo(an, EpsilonGeojson), 1)

\* a ring rounded first and simplified from the rounded points
SimplificadoDeRedondeo(an) ==
    redondear_coordenadas(
        simplificar_anillo(redondear_coordenadas(an, 1), EpsilonGeojson), 1)

\* C11: the simplifier of line 202 is handed a feature's original, unrounded
\* rings, rounding (line 203) starts on a feature only when every ring of it
\* has been simplified, and each ring that comes out is the rounding of the
\* simplification of the original ring.
C11_RedondeoDespuesDeSimplificar ==
    /\ pc = "simplificar" =>
           \A i \in idx..Len(entrada.features) :
               geo.features[i].geometry = entrada.features[i].geometry
    /\ pc = "redondear" =>
           LET a == entrada.features[idx].geometry
               b == geo.features[idx].geometry
           IN  Reconocida(a.type) =>
                   /\ Len(AnillosDe(b)) = Len(AnillosDe(a))
                   /\ \A k \in 1..Len(AnillosDe(a)) :
                          AnillosDe(b)[k] = simplificar_anillo(AnillosDe(a)[k], EpsilonGeojson)
    /\ \A i \in 1..Len(entrada.features) :
           (Transformada(i) /\ Reconocida(entrada.features[i].geometry.type)) =>
               LET a == entrada.features[i].geometry
                   b == geo.features[i].geometry
               IN  /\ Len(AnillosDe(b)) = Len(AnillosDe(a))
                   /\ \A k \in 1..Len(AnillosDe(a)) :
                          AnillosDe(b)[k] = RedondeoDeSimplificado(AnillosDe(a)[k])

\* a transformed feature with a ring on which the two orders differ
C11_Witness ==
    /\ pc = "propiedades"
    /\ Reconocida(entrada.features[idx].geometry.type)
    /\ \E k \in 1..Len(AnillosDe(entrada.features[idx].geometry)) :
           LET an == AnillosDe(entrada.features[idx].geometry)[k]
           IN  /\ RedondeoDeSimplificado(an) # SimplificadoDeRedondeo(an)
               /\ AnillosDe(geo.features[idx].geometry)[k] = RedondeoDeSimplificado(an)
               /\ AnillosDe(geo.features[idx].geometry)[k] # SimplificadoDeRedondeo(an)

-----------------------------------------------------------------------------
(* Properties of the Distance Evaluator *)

\* the square of the Euclidean distance between two points
Euclides2(p, q) ==
    (p[1] - q[1]) * (p[1] - q[1]) + (p[2] - q[2]) * (p[2] - q[2])

\* (p - a) . (b - a), (b - a) . (b - a) and (p - a) x (b - a)
Escalar(p, a, b) == (p[1] - a[1]) * (b[1] - a[1]) + (p[2] - a[2]) * (b[2] - a[2])
Vectorial(p, a, b) == (p[1] - a[1]) * (b[2] - a[2]) - (p[2] - a[2]) * (b[1] - a[1])

\* q lies on the closed segment from a to b
EnElSegmento(q, a, b) ==
    /\ Vectorial(q, a, b) = 0
    /\ Escalar(q, a, b) >= 0
    /\ Escalar(q, a, b) <= Escalar(b, a, b)

\* C12: for a segment of zero length the call returns the Euclidean distance
\* from punto to that location, as the float nearest to it, and has not
\* evaluated the quotient of line 81.
C12_SegmentoDegenerado ==
    (posicion = "retornado" /\ inicio = fin) =>
        /\ distancia.d = 1
        /\ distancia.n = Euclides2(punto, inicio)
        /\ distancia.r = 0
        /\ divisiones = 0

\* a call on a zero-length segment from a point elsewhere
C12_Witness ==
    /\ posicion = "retornado"
    /\ inicio = fin
    /\ punto # inicio
    /\ distancia = Calculada(5, 1, 0)
    /\ divisiones = 0

C13_WitnessRedondeada ==
    /\ posicion = "retornado"
    /\ punto = << 1, 0 >>
    /\ inicio = << 0, 0 >>
    /\ fin = << 1, 2 >>
    /\ distancia = Calculada(4, 5, 1)

\* the call on (0, 15), (0, 0), (0, 22), a point of the segment: t = 15/22
\* is rounded and the float returned is above 0.0
C13_WitnessSobreElSegmento ==
    /\ posicion = "retornado"
    /\ punto = << 0, 15 >>
    /\ inicio = << 0, 0 >>
    /\ fin = << 0, 22 >>
    /\ distancia = Calculada(0, 484, 1)

\* the projection falls before inicio: the distance to inicio is returned
C13_WitnessAntesDeInicio ==
    /\ posicion = "retornado"
    /\ Escalar(punto, inicio, fin) < 0
    /\ Vectorial(punto, inicio, fin) # 0
    /\ distancia.n = Euclides2(punto, inicio)

\* the projection falls beyond fin: the distance to fin is returned
C13_WitnessDespuesDeFin ==
    /\ posicion = "retornado"
    /\ inicio # fin
    /\ Escalar(punto, inicio, fin) > Escalar(fin, inicio, fin)
    /\ Vectorial(punto, inicio, fin) # 0
    /\ distancia.n = Euclides2(punto, fin)

-----------------------------------------------------------------------------
(* Further properties of the Ring Normalizer, the rounding and the scan *)

\* a non-empty sequence whose first and last points are equal
Cerrado(an) == Len(an) >= 1 /\ an[1] = an[Len(an)]

\* C14: a ring whose first and last points coincide comes back from
\* _simplificar_anillo with its first point equal to its last, and is still
\* so after _redondear_coordenadas.
C14_CierreConservado ==
    (paso = "retorno" /\ Cerrado(anillo)) =>
        /\ Cerrado(retorno)
        /\ retorno[1] = anillo[1]
        /\ Cerrado(redondear_coordenadas(retorno, 1))

\* a closed ring of five points returned with four, which rounding then moves
C14_Witness ==
    /\ paso = "retorno"
    /\ Cerrado(anillo)
    /\ Len(anillo) = 5
    /\ Len(retorno) = 4
    /\ redondear_coordenadas(retorno, 1) # retorno

\* C15: a ring given with fewer than 4 points is returned as it was given, the
\* same points in the same order, at every tolerance.
C15_AnilloCortoIntacto ==
    (paso = "retorno" /\ Len(anillo) < 4) => retorno = anillo

\* a ring of three points that the simplifier had cut to two
C15_Witness ==
    /\ paso = "retorno"
    /\ Len(anillo) = 3
    /\ Len(simplificado) = 2
    /\ retorno = anillo

\* every leaf of a coordinate structure is a multiple of 0.001 degree
RECURSIVE Cuantizado(_, _)
Cuantizado(coords, nivel) ==
    IF nivel = 0
    THEN coords[1] % 3 = 0 /\ coords[2] % 3 = 0
    ELSE \A k \in 1..Len(coords) : Cuantizado(coords[k], nivel - 1)

\* C16: the coordinates that line 203 stored, handed to
\* _redondear_coordenadas once more at the same precision, come back equal,
\* with the same nesting and the same number of points.
C16_RedondeoIdempotente ==
    \A i \in 1..Len(entrada.features) :
        Transformada(i) =>
            LET g == geo.features[i].geometry
                n == Anidamiento(g.type)
                r == redondear_coordenadas(g.coordinates, n)
            IN  /\ ~redondear_IndexError(g.coordinates, n)
                /\ r = g.coordinates
                /\ Cuantizado(r, n)
                /\ contar_coordenadas(r, n) = contar_coordenadas(g.coordinates, n)

\* a feature whose simplified coordinates the first rounding had moved
C16_Witness ==
    /\ pc = "propiedades"
    /\ LET g == geo.features[idx].geometry
           a == simplificar_geometria(entrada.features[idx].geometry, EpsilonGeojson)
       IN  /\ g.coordinates # a.coordinates
           /\ ~Cuantizado(a.coordinates, Anidamiento(a.type))
           /\ redondear_coordenadas(g.coordinates, Anidamiento(g.type)) = g.coordinates

\* epsilon * epsilon compared with a whole number of squared units
CuadradoMenorQue(tol, k) == tol.n * tol.n < k * tol.d * tol.d

\* C17 as stated: at every tolerance the simplifier cuts the triangle ring to
\* 3 points, the floor rejects that result and the original ring is returned.
C17_Original ==
    (paso = "retorno" /\ anillo = Triangulo) =>
        /\ Len(simplificado) = 3
        /\ retorno = Triangulo

\* C17 amended: the triangle ring is returned unchanged at every tolerance;
\* the simplifier keeps all 4 of its points below a tolerance of sqrt(80)
\* units (the default 0.008 included), 3 points from sqrt(80) up to but not
\* including sqrt(125), where the floor rejects the result, and 2 points from
\* sqrt(125) on, rejected as well.
C17_TrianguloDevuelto ==
    (paso = "retorno" /\ anillo = Triangulo) =>
        /\ retorno = Triangulo
        /\ Len(retorno) = 4
        /\ CuadradoMenorQue(epsilon, 80) => simplificado = Triangulo
        /\ (~CuadradoMenorQue(epsilon, 80) /\ CuadradoMenorQue(epsilon, 125)) =>
               simplificado = << Triangulo[1], Triangulo[2], Triangulo[4] >>
        /\ ~CuadradoMenorQue(epsilon, 125) =>
               simplificado = << Triangulo[1], Triangulo[4] >>

\* the triangle simplified to 3 points and returned with its 4
C17_Witness ==
    /\ paso = "retorno"
    /\ anillo = Triangulo
    /\ Len(simplificado) = 3
    /\ retorno = Triangulo

\* the triangle at the default tolerance: nothing dropped
C17_WitnessPorDefecto ==
    /\ paso = "retorno"
    /\ anillo = Triangulo
    /\ epsilon = Racional(1, 125)
    /\ Len(simplificado) = 4

\* every coordinate leaf of a structure has exactly two components
RECURSIVE HojasDeDosComponentes(_, _)
HojasDeDosComponentes(coords, nivel) ==
    IF nivel = 0
    THEN Len(coords) = 2
    ELSE \A k \in 1..Len(coords) : HojasDeDosComponentes(coords[k], nivel - 1)

\* C18: lines 202-203 do not return normally for a feature with a coordinate
\* leaf that has not exactly two components, and no such leaf is emitted with
\* components removed.
C18_HojaMalformadaEsError ==
    \A i \in 1..Len(entrada.features) :
        Transformada(i) =>
            HojasDeDosComponentes(entrada.features[i].geometry.coordinates,
                                  Anidamiento(entrada.features[i].geometry.type))

\* the value returned dist does not exceed the tolerance tol
DentroDeTolerancia(dist, tol) ==
    \/ dist.n * (tol.d * tol.d) < (tol.n * tol.n) * dist.d
    \/ (dist.n * (tol.d * tol.d) = (tol.n * tol.n) * dist.d /\ dist.r <= 0)

\* the positions of anillo that the call kept
IndicesDelAnillo == indices_retenidos(anillo, epsilon, 1, Len(anillo))

\* C19: the result is the input read at the retained positions, and every
\* input point dropped between two consecutive retained positions is within
\* the tolerance of the segment joining the points at those two positions.
C19_ErrorAcotado ==
    paso # "inicio" =>
        LET r == IndicesDelAnillo
        IN  /\ Len(r) = Len(simplificado)
            /\ \A k \in 1..Len(r) : simplificado[k] = anillo[r[k]]
            /\ \A k \in 1..(Len(r) - 1) :
                   /\ r[k] < r[k + 1]
                   /\ \A j \in (r[k] + 1)..(r[k + 1] - 1) :
                          DentroDeTolerancia(
                              punto_distancia_a_linea(anillo[j], anillo[r[k]], anillo[r[k + 1]]),
                              epsilon)

\* five points cut to three, a dropped point off the segment that replaces it
C19_Witness ==
    /\ paso = "simplificado"
    /\ Len(anillo) = 5
    /\ Len(simplificado) = 3
    /\ \E k \in 1..2 :
           \E j \in (IndicesDelAnillo[k] + 1)..(IndicesDelAnillo[k + 1] - 1) :
               punto_distancia_a_linea(anillo[j], anillo[IndicesDelAnillo[k]],
                                       anillo[IndicesDelAnillo[k + 1]]).n > 0

\* the distance of the point at position j (1-based) to the chord of anillo
DistanciaALaCuerda(j) ==
    punto_distancia_a_linea(anillo[j], anillo[1], anillo[Len(anillo)])

\* C20: for an input of 3 points or more the result is exactly the first and
\* the last point if and only if no interior point is returned a distance to
\* the chord above the tolerance, a distance equal to the tolerance included;
\* otherwise the call splits at an interior position whose distance is the
\* largest returned.  The distances are the floats that
\* _punto_distancia_a_linea returns.
C20_DivisionEstricta ==
    (paso # "inicio" /\ Len(anillo) >= 3) =>
        LET interiores == 2..(Len(anillo) - 1)
            ninguno == \A j \in interiores : DentroDeTolerancia(DistanciaALaCuerda(j), epsilon)
        IN  /\ ninguno <=> simplificado = << anillo[1], anillo[Len(anillo)] >>
            /\ ~ninguno =>
                   \E k \in interiores :
                       /\ \A j \in interiores :
                              ~MayorQue(DistanciaALaCuerda(j), DistanciaALaCuerda(k))
                       /\ LET izq == douglas_peucker(SubSeq(anillo, 1, k), epsilon)
                              der == douglas_peucker(SubSeq(anillo, k, Len(anillo)), epsilon)
                          IN  simplificado = SubSeq(izq, 1, Len(izq) - 1) \o der

\* an interior point returned the tolerance exactly, none beyond it, and no
\* split
C20_Witness ==
    /\ paso = "simplificado"
    /\ Len(anillo) >= 3
    /\ \E j \in 2..(Len(anillo) - 1) :
           LET d == DistanciaALaCuerda(j)
           IN  /\ IgualATolerancia(d, epsilon)
               /\ d.r = 0
               /\ ~ProyeccionInterior(anillo[j], anillo[1], anillo[Len(anillo)])
    /\ \A j \in 2..(Len(anillo) - 1) : DentroDeTolerancia(DistanciaALaCuerda(j), epsilon)
    /\ simplificado = << anillo[1], anillo[Len(anillo)] >>

\* the interior point is 3/5 from the chord and the float returned for it is
\* above the float of 3/5: the call splits
C20_WitnessRedondeada ==
    /\ paso = "simplificado"
    /\ anillo = << << 0, 2 >>, << 3, 5 >>, << 4, 5 >> >>
    /\ epsilon = Racional(3, 5)
    /\ DistanciaALaCuerda(2).r = 1
    /\ simplificado = anillo

\* a split at the farthest interior point
C20_WitnessDivision ==
    /\ paso = "simplificado"
    /\ Len(anillo) = 5
    /\ Len(simplificado) = 3
    /\ simplificado[2] = anillo[MaximoDeAnillo.indice_max + 1]

-----------------------------------------------------------------------------
(* Independence of the features *)

\* what lines 202-211 make of one feature, from that feature alone
FeatureTransformada(f) ==
    [geometry |-> GeometriaTransformada(f.geometry),
     properties |-> [c |-> f.properties["DPTOMPIO"], n |-> f.properties["MPIO_CNMBR"]]]

\* lines 202-211 raise on this feature, whatever the others are
FallaPropia(f) ==
    \/ simplificar_IndexError(f.geometry)
    \/ redondear_IndexError(simplificar_geometria(f.geometry, EpsilonGeojson).coordinates,
                            Anidamiento(f.geometry.type))
    \/ propiedades_KeyError(f.properties)

\* the collection the loop of lines 201-211 leaves, features taken in order
RECURSIVE BucleSecuencial(_, _)
BucleSecuencial(g, i) ==
    IF i > Len(g.features)
    THEN g
    ELSE BucleSecuencial(
             [g EXCEPT !.features[i] = FeatureTransformada(g.features[i])], i + 1)

\* C21: in whatever order the steps of the features are taken, each feature
\* is at every moment what its own input and its own progress make it, a run
\* fails only on a feature that fails on its own, and the collection returned
\* is the one the sequential loop returns.
C21_FeaturesIndependientes ==
    Len(avance) > 0 =>
        /\ \A i \in 1..Len(entrada.features) :
               LET f == entrada.features[i]
                   h == geo.features[i]
               IN  /\ avance[i] = "simplificar" => h = f
                   /\ avance[i] = "redondear" =>
                          /\ h.geometry = simplificar_geometria(f.geometry, EpsilonGeojson)
                          /\ h.properties = f.properties
                   /\ avance[i] = "propiedades" =>
                          /\ h.geometry = GeometriaTransformada(f.geometry)
                          /\ h.properties = f.properties
                   /\ avance[i] = "hecho" => h = FeatureTransformada(f)
        /\ pc = "error" => \E i \in 1..Len(entrada.features) : FallaPropia(entrada.features[i])
        /\ pc = "retornado" =>
               /\ \A i \in 1..Len(entrada.features) : ~FallaPropia(entrada.features[i])
               /\ salida = BucleSecuencial(entrada, 1)

\* two different features, the second finished before the first was rounded
C21_Witness ==
    /\ pc = "bucle"
    /\ Len(avance) = 2
    /\ avance[1] = "redondear"
    /\ avance[2] = "hecho"
    /\ entrada.features[1] # entrada.features[2]
    /\ geo.features[1].geometry # entrada.features[1].geometry
    /\ geo.features[2].geometry # entrada.features[2].geometry

\* the collection returned after such an interleaving
C21_WitnessRetorno ==
    /\ pc = "retornado"
    /\ Len(avance) = 2
    /\ entrada.features[1] # entrada.features[2]
    /\ salida = BucleSecuencial(entrada, 1)

-----------------------------------------------------------------------------
(* Termination and idempotence of the simplifier *)

\* C22: the call of _douglas_peucker returns; every call it makes of itself,
\* at any depth, is handed at least 2 points and fewer than its caller, and
\* the calls nest no deeper than the input has interior points.
C22_RecursionAcotada ==
    paso # "inicio" =>
        LET p == profundidad(anillo, epsilon)
        IN  /\ simplificado = douglas_peucker(anillo, epsilon)
            /\ llamadas_decrecientes(anillo, epsilon)
            /\ p >= 0
            /\ Len(anillo) >= 2 => p <= Len(anillo) - 2
            /\ Len(anillo) < 2 => p = 0

\* five points, calls nested as deep as the three interior points allow
C22_Witness ==
    /\ paso = "simplificado"
    /\ Len(anillo) = 5
    /\ profundidad(anillo, epsilon) = 3
    /\ Len(simplificado) = 5

\* C23: simplifying the result of _douglas_peucker again at the same
\* tolerance returns that result, and _simplificar_anillo applied to the ring
\* it returned, at the same tolerance, returns that ring.
C23_Idempotencia ==
    /\ paso # "inicio" => douglas_peucker(simplificado, epsilon) = simplificado
    /\ paso = "retorno" => simplificar_anillo(retorno, epsilon) = retorno

\* a simplified ring, shorter than the ring given, that is returned and
\* simplifies to itself
C23_Witness ==
    /\ paso = "retorno"
    /\ Len(anillo) = 5
    /\ Len(simplificado) = 4
    /\ retorno = simplificado
    /\ douglas_peucker(retorno, epsilon) = retorno

\* a ring returned by the fallback, which simplifies to fewer points again
C23_WitnessOriginal ==
    /\ paso = "retorno"
    /\ Len(anillo) = 5
    /\ Len(simplificado) = 3
    /\ retorno = anillo
    /\ simplificar_anillo(retorno, epsilon) = retorno

-----------------------------------------------------------------------------
(* The empty collection *)

\* C24: a run on a collection without features raises nothing, and once it
\* has passed the metric of lines 213-216 it goes on to return a collection
\* without features.
C24_ColeccionVaciaCompleta ==
    (pc # "inactivo" /\ pc # "cargar" /\ Len(entrada.features) = 0) =>
        /\ error = ""
        /\ pc # "error"
        /\ pc = "retornado" => Len(salida.features) = 0

-----------------------------------------------------------------------------
(* Agreement of the dashboard state with the sliders *)

\* the state variables agree with the slider positions
Acuerdo ==
    /\ sliderY \in { Cadena(n) : n \in 0..MaxY }
    /\ sliderM \in { Cadena(n) : n \in 0..MaxM }
    /\ curY = YearsEn(parseInt(sliderY))
    /\ curM = parseInt(sliderM)
    /\ curY \in {0} \cup 1998..2024
    /\ curM \in 0..12

\* the handlers that end with update(): lines 960, 965, 931 and 998
ConUpdate == InputSliderY \/ InputSliderM \/ ClickSparkline \/ TickY \/ TickM

\* C25: whenever update() runs at the end of a handler, curY is the entry of
\* YEARS at the position of the year slider and curM is the position of the
\* month slider; curY is 0 or a year from 1998 to 2024 and curM is from 0 to
\* 12.
C25_EstadoYSliders == [][ConUpdate => Acuerdo']_vars

====
